---- MODULE Spec2Model ----
(***************************************************************************)
(* Model of the NGINX exporter's collector: NginxCollector.Collect (three  *)
(* revisions live in the repository), NginxClient.GetStubStats,            *)
(* NginxClient.GetCustomStats, and the helpers extractProxyTarget,         *)
(* findUpstreamServers and tcpTest.                                        *)
(*                                                                         *)
(* Configuration text is a sequence of one-character strings, so that the  *)
(* regular expressions of the helpers are modelled by what they match.     *)
(***************************************************************************)
EXTENDS Integers, Sequences, FiniteSets, TLC

\* ------------------------------------------------------------------------
\* Characters and words
\* ------------------------------------------------------------------------

Digits == {"0", "1", "2", "3", "4", "5", "6", "7", "8", "9"}

Letters ==
    {"a", "b", "c", "d", "e", "f", "g", "h", "i", "j", "k", "l", "m",
     "n", "o", "p", "q", "r", "s", "t", "u", "v", "w", "x", "y", "z"}

\* \s of the regular expressions, and the characters strings.TrimSpace cuts
IsSpace(c) == c \in {" ", "\n", "\t"}

IsAlnum(c) == c \in Digits \cup Letters

kwProxyPass == <<"p", "r", "o", "x", "y", "_", "p", "a", "s", "s">>
kwUpstream == <<"u", "p", "s", "t", "r", "e", "a", "m">>
kwServer == <<"s", "e", "r", "v", "e", "r">>
kwHttp == <<"h", "t", "t", "p", ":", "/", "/">>
kwHttps == <<"h", "t", "t", "p", "s", ":", "/", "/">>

SetMin(S) == CHOOSE x \in S : \A y \in S : x <= y
SetMax(S) == CHOOSE x \in S : \A y \in S : x >= y

\* ------------------------------------------------------------------------
\* String primitives
\* ------------------------------------------------------------------------

\* w occurs in s starting at index i
HasPrefixAt(s, i, w) ==
    /\ i >= 1
    /\ i + Len(w) - 1 <= Len(s)
    /\ \A k \in 1..Len(w) : s[i + k - 1] = w[k]

\* first index >= i whose character is not whitespace, Len(s)+1 if none
SpaceRunEnd(s, i) ==
    SetMin({j \in i..(Len(s) + 1) : j = Len(s) + 1 \/ ~IsSpace(s[j])})

\* first index >= i whose character is not a digit, Len(s)+1 if none
DigitRunEnd(s, i) ==
    SetMin({j \in i..(Len(s) + 1) : j = Len(s) + 1 \/ s[j] \notin Digits})

\* first index >= i whose character is not in [a-zA-Z0-9-], Len(s)+1 if none
LabelRunEnd(s, i) ==
    SetMin({j \in i..(Len(s) + 1) :
               j = Len(s) + 1 \/ ~(IsAlnum(s[j]) \/ s[j] = "-")})

\* first index >= i holding character c, 0 if none
IndexFrom(s, i, c) ==
    LET hits == {j \in i..Len(s) : s[j] = c}
    IN  IF hits = {} THEN 0 ELSE SetMin(hits)

TrimSpace(s) ==
    LET keep == {j \in 1..Len(s) : ~IsSpace(s[j])}
    IN  IF keep = {} THEN <<>> ELSE SubSeq(s, SetMin(keep), SetMax(keep))

TrimPrefix(s, w) ==
    IF HasPrefixAt(s, 1, w) THEN SubSeq(s, Len(w) + 1, Len(s)) ELSE s

Contains(s, c) == \E j \in 1..Len(s) : s[j] = c

\* ------------------------------------------------------------------------
\* extractProxyTarget and its regular expressions
\* ------------------------------------------------------------------------

\* (:\d+)?$ at index i
PortSuffixAt(s, i) ==
    \/ i = Len(s) + 1
    \/ /\ i <= Len(s)
       /\ s[i] = ":"
       /\ i + 1 <= Len(s)
       /\ DigitRunEnd(s, i + 1) = Len(s) + 1

\* n groups \d{1,3} separated by dots from index i, then the port suffix
RECURSIVE OctetsAt(_, _, _)
OctetsAt(s, i, n) ==
    LET e == DigitRunEnd(s, i)
    IN  /\ e - i \in 1..3
        /\ IF n = 1
           THEN PortSuffixAt(s, e)
           ELSE e <= Len(s) /\ s[e] = "." /\ OctetsAt(s, e + 1, n - 1)

\* ^\d{1,3}\.\d{1,3}\.\d{1,3}\.\d{1,3}(:\d+)?$
ipFormat(s) == OctetsAt(s, 1, 4)

\* labels [a-zA-Z0-9]([a-zA-Z0-9-]*[a-zA-Z0-9])? separated by dots from
\* index i, then the port suffix
RECURSIVE LabelsAt(_, _)
LabelsAt(s, i) ==
    LET e == LabelRunEnd(s, i)
    IN  /\ e > i
        /\ IsAlnum(s[i])
        /\ IsAlnum(s[e - 1])
        /\ IF e <= Len(s) /\ s[e] = "."
           THEN LabelsAt(s, e + 1)
           ELSE PortSuffixAt(s, e)

\* ^(label)(\.label)*(:\d+)?$
domainFormat(s) == LabelsAt(s, 1)

\* One match of server\s+([^; ]+); at index i of body: the index of the
\* capture's first character (the longest \s+ that lets the rest match), 0
\* when there is no match at i.
ServerCaptureStart(body, i) ==
    IF ~HasPrefixAt(body, i, kwServer) THEN 0
    ELSE LET j == i + Len(kwServer)
             e == SpaceRunEnd(body, j)
             RunEnd(k) ==
                 SetMin({r \in k..(Len(body) + 1) :
                            r = Len(body) + 1 \/ body[r] \in {";", " "}})
             ok == {k \in (j + 1)..e :
                       /\ k <= Len(body)
                       /\ RunEnd(k) > k
                       /\ RunEnd(k) <= Len(body)
                       /\ body[RunEnd(k)] = ";"}
         IN  IF ok = {} THEN 0 ELSE SetMax(ok)

\* reServer.FindAllStringSubmatch(body, -1) from index i on, the captures
\* only: the leftmost match, then the matches after its semicolon
RECURSIVE ServerMatches(_, _)
ServerMatches(body, i) ==
    LET starts == {m \in i..Len(body) : ServerCaptureStart(body, m) # 0}
    IN  IF starts = {} THEN <<>>
        ELSE LET k == ServerCaptureStart(body, SetMin(starts))
                 semi == IndexFrom(body, k, ";")
             IN  <<SubSeq(body, k, semi - 1)>> \o ServerMatches(body, semi + 1)

\* upstream\s+<name>\s*\{([\s\S]*?)\} matches at index i of content
UpstreamBlockAt(content, name, i) ==
    LET j == i + Len(kwUpstream)
        e1 == SpaceRunEnd(content, j)
        e2 == SpaceRunEnd(content, e1 + Len(name))
    IN  /\ HasPrefixAt(content, i, kwUpstream)
        /\ e1 > j
        /\ HasPrefixAt(content, e1, name)
        /\ e2 <= Len(content)
        /\ content[e2] = "{"
        /\ IndexFrom(content, e2 + 1, "}") # 0

\* The leftmost match of that expression: <<first index of the block body,
\* index of the closing brace>>, <<0, 0>> when it matches nowhere.  The
\* lazy body ends at the first closing brace.
UpstreamBlock(content, name) ==
    LET starts == {m \in 1..Len(content) : UpstreamBlockAt(content, name, m)}
    IN  IF starts = {} THEN <<0, 0>>
        ELSE LET i == SetMin(starts)
                 e1 == SpaceRunEnd(content, i + Len(kwUpstream))
                 e2 == SpaceRunEnd(content, e1 + Len(name))
             IN  <<e2 + 1, IndexFrom(content, e2 + 1, "}")>>

\* findUpstreamServers: [err |-> no block of that name, servers |-> ...]
findUpstreamServers(content, upstreamName) ==
    LET blk == UpstreamBlock(content, upstreamName)
    IN  IF blk[1] = 0
        THEN [err |-> TRUE, servers |-> <<>>]
        ELSE [err |-> FALSE,
              servers |-> ServerMatches(SubSeq(content, blk[1], blk[2] - 1), 1)]

\* proxy_pass\s+(.*?); matches at index i of s.  \s+ takes the whole
\* whitespace run (a shorter one only prepends whitespace to the capture and
\* cannot help . cross a newline); the lazy capture ends at the first
\* semicolon and holds no newline.
ProxyPassAt(s, i) ==
    LET j == i + Len(kwProxyPass)
        e == SpaceRunEnd(s, j)
        semi == IndexFrom(s, e, ";")
    IN  /\ HasPrefixAt(s, i, kwProxyPass)
        /\ e > j
        /\ semi # 0
        /\ \A k \in e..(semi - 1) : s[k] # "\n"

\* re.FindAllStringSubmatch(contentStr, -1) from index i on, the captures
\* only: the leftmost match, then the matches after its semicolon
RECURSIVE ProxyPassMatches(_, _)
ProxyPassMatches(s, i) ==
    LET starts == {m \in i..Len(s) : ProxyPassAt(s, m)}
    IN  IF starts = {} THEN <<>>
        ELSE LET e == SpaceRunEnd(s, SetMin(starts) + Len(kwProxyPass))
                 semi == IndexFrom(s, e, ";")
             IN  <<SubSeq(s, e, semi - 1)>> \o ProxyPassMatches(s, semi + 1)

\* only http:// is cut
StripSchemeHttpOnly(value) == TrimPrefix(TrimSpace(value), kwHttp)

\* the value of one directive after TrimSpace and the two TrimPrefix calls
StripScheme(value) == TrimPrefix(TrimPrefix(TrimSpace(value), kwHttp), kwHttps)

\* the targets one proxy_pass directive adds (the loop body of
\* extractProxyTarget)
DirectiveTargets(contentStr, value) ==
    LET target == StripScheme(value)
    IN  IF ~ipFormat(target) /\ ~domainFormat(target)
        THEN LET r == findUpstreamServers(contentStr, target)
             IN  IF ~r.err THEN r.servers ELSE <<>>
        ELSE <<target>>

RECURSIVE AccumulateTargets(_, _, _)
AccumulateTargets(contentStr, matches, k) ==
    IF k > Len(matches) THEN <<>>
    ELSE DirectiveTargets(contentStr, matches[k])
             \o AccumulateTargets(contentStr, matches, k + 1)

\* an extraction that returns the error of findUpstreamServers
extractProxyTargetStrict(readOK, contentStr) ==
    LET matches == ProxyPassMatches(contentStr, 1)
        fails(k) ==
            LET target == StripScheme(matches[k])
            IN  /\ ~ipFormat(target)
                /\ ~domainFormat(target)
                /\ findUpstreamServers(contentStr, target).err
    IN  IF ~readOK \/ \E k \in 1..Len(matches) : fails(k)
        THEN [err |-> TRUE, targets |-> <<>>]
        ELSE [err |-> FALSE,
              targets |-> AccumulateTargets(contentStr, matches, 1)]

\* extractProxyTarget on a file whose read succeeded (readOK) or failed
extractProxyTarget(readOK, contentStr) ==
    IF ~readOK
    THEN [err |-> TRUE, targets |-> <<>>]
    ELSE [err |-> FALSE,
          targets |-> AccumulateTargets(contentStr,
                                        ProxyPassMatches(contentStr, 1), 1)]

\* ------------------------------------------------------------------------
\* tcpTest
\* ------------------------------------------------------------------------

TcpSuccess == 1
TcpFailure == 0

\* how net.DialTimeout can end: a connection, or one of its errors
DialOutcomes == {"connected", "refused", "timeout", "dns"}

\* the outcomes drawn for the probes of a collection cycle
CycleDials == {"connected", "refused"}

\* a probe that dials the target as it stands
tcpTestNoDefaultPort(proxyTarget, dial) ==
    [addr |-> proxyTarget,
     result |-> IF dial # "connected" THEN TcpFailure ELSE TcpSuccess,
     err |-> FALSE]

\* tcpTest(proxyTarget) when the dial ends as `dial`: the address dialled,
\* the result and the error returned
tcpTest(proxyTarget, dial) ==
    LET addr == IF ~Contains(proxyTarget, ":")
                THEN proxyTarget \o <<":", "8", "0">>
                ELSE proxyTarget
    IN  [addr |-> addr,
         result |-> IF dial # "connected" THEN TcpFailure ELSE TcpSuccess,
         err |-> FALSE]

\* ------------------------------------------------------------------------
\* Configuration texts
\* ------------------------------------------------------------------------

sp == <<" ">>
nl == <<"\n">>
addrA == <<"1", "0", ".", "0", ".", "0", ".", "5", ":", "9", "0", "0", "0">>
addr1 == <<"1", "0", ".", "0", ".", "0", ".", "1", ":", "8", "0">>
addr2 == <<"1", "0", ".", "0", ".", "0", ".", "2", ":", "8", "0">>
hostWeb == <<"w", "e", "b">>
nameB == <<"b">>
nameAB == <<"a", "_", "b">>
nameNone == <<"n", "_", "o">>
nameCD == <<"c", "_", "d">>

\* proxy_pass <value>;
ProxyPassStmt(value) == kwProxyPass \o sp \o value \o <<";">>

RECURSIVE ServerLines(_, _)
ServerLines(addrs, k) ==
    IF k > Len(addrs) THEN <<>>
    ELSE sp \o kwServer \o sp \o addrs[k] \o <<";">> \o ServerLines(addrs, k + 1)

\* upstream <name> { server <addr>; ... }
UpstreamStmt(name, addrs) ==
    kwUpstream \o sp \o name \o <<" ", "{">> \o ServerLines(addrs, 1) \o <<" ", "}">>

\* scenario A: proxy_pass http://10.0.0.5:9000;
TextScenarioA == ProxyPassStmt(kwHttp \o addrA)

\* scenario B: upstream b { server 10.0.0.1:80; server 10.0.0.2:80; }
\*             proxy_pass http://b;
TextScenarioB ==
    UpstreamStmt(nameB, <<addr1, addr2>>) \o nl \o ProxyPassStmt(kwHttp \o nameB)

\* a group whose name is no hostname: upstream a_b { ... } proxy_pass http://a_b;
TextGroup ==
    UpstreamStmt(nameAB, <<addr1, addr2>>) \o nl \o ProxyPassStmt(kwHttp \o nameAB)

\* proxy_pass http://n_o; (no such block) and proxy_pass https://web;
TextMissing ==
    ProxyPassStmt(kwHttp \o nameNone) \o nl \o ProxyPassStmt(kwHttps \o hostWeb)

\* no forwarding directive: server { }
TextNone == kwServer \o <<" ", "{", " ", "}">>

TextNames == {"scenarioA", "scenarioB", "group", "missing", "none"}

TextOf(name) ==
    CASE name = "scenarioA" -> TextScenarioA
      [] name = "scenarioB" -> TextScenarioB
      [] name = "group" -> TextGroup
      [] name = "missing" -> TextMissing
      [] name = "none" -> TextNone

\* extractProxyTarget on each text, read or not, as a table (the empty
\* function added on the right leaves it as it is): the function is
\* evaluated once per text and looked up by the text's name
Extraction ==
    [readOK \in BOOLEAN, name \in TextNames |->
        extractProxyTarget(readOK, TextOf(name))] @@ <<>>

\* ------------------------------------------------------------------------
\* The file system the collector reads
\* ------------------------------------------------------------------------

\* c.nginxConfigPath and what can lie under filepath.Dir(path)/conf.d
PrimaryPath == "nginx.conf"

\* the override tree in filepath.WalkDir's order (lexical, a directory
\* before its entries)
TreeOrder == <<"conf.d/a.conf", "conf.d/notes", "conf.d/sub", "conf.d/sub/b.conf">>

TreeDirs == {"conf.d/sub"}

Paths == {PrimaryPath} \cup {TreeOrder[k] : k \in 1..Len(TreeOrder)}

\* info.Name(): the last element of the path
BaseName(path) ==
    CASE path = "nginx.conf" ->
             <<"n", "g", "i", "n", "x", ".", "c", "o", "n", "f">>
      [] path = "conf.d/a.conf" -> <<"a", ".", "c", "o", "n", "f">>
      [] path = "conf.d/notes" -> <<"n", "o", "t", "e", "s">>
      [] path = "conf.d/sub" -> <<"s", "u", "b">>
      [] path = "conf.d/sub/b.conf" -> <<"b", ".", "c", "o", "n", "f">>

dotConf == <<".", "c", "o", "n", "f">>

\* strings.HasSuffix
HasSuffix(s, w) == HasPrefixAt(s, Len(s) - Len(w) + 1, w)

\* the states of the override directory: absent, or present with entries
Layouts ==
    {[exists |-> FALSE, entries |-> {}],
     [exists |-> TRUE, entries |-> {}],
     [exists |-> TRUE, entries |-> {"conf.d/a.conf"}],
     [exists |-> TRUE, entries |-> {"conf.d/notes"}],
     [exists |-> TRUE, entries |-> {"conf.d/sub", "conf.d/sub/b.conf"}]}

\* the text each file holds; the primary file's is drawn in Init
OverrideText(path) ==
    CASE path = "conf.d/a.conf" -> "missing"
      [] path = "conf.d/notes" -> "none"
      [] path = "conf.d/sub/b.conf" -> "scenarioA"
      [] OTHER -> "none"

\* filepath.WalkDir(confDir, fn) with the callback of the collector: the
\* paths it appends.  A missing root calls fn once with err # nil, which
\* appends nothing and returns nil; a directory entry is not appended.
WalkDir(layout) ==
    IF ~layout.exists THEN <<>>
    ELSE SelectSeq(TreeOrder,
                   LAMBDA e : e \in layout.entries /\ e \notin TreeDirs)

\* a discovery that gives up when the walk cannot read its root
DiscoverFilesAbort(layout) ==
    IF ~layout.exists THEN <<>> ELSE <<PrimaryPath>> \o WalkDir(layout)

\* files := []string{path}; WalkDir appends
DiscoverFiles(layout) == <<PrimaryPath>> \o WalkDir(layout)

\* ------------------------------------------------------------------------
\* The status endpoint client
\* ------------------------------------------------------------------------

nginxUp == 1
nginxDown == 0
StatusOK == 200

\* StubStats values the endpoint may report
StatsValues ==
    {[active |-> 1, accepted |-> 2, handled |-> 2, requests |-> 3,
      reading |-> 0, writing |-> 1, waiting |-> 0],
     [active |-> 2, accepted |-> 3, handled |-> 3, requests |-> 4,
      reading |-> 1, writing |-> 1, waiting |-> 0]}

NoStats ==
    [active |-> 0, accepted |-> 0, handled |-> 0, requests |-> 0,
     reading |-> 0, writing |-> 0, waiting |-> 0]

\* ---- fmt.Fscanf(r, templateMetrics, ...) ----

DigitSeq == <<"0", "1", "2", "3", "4", "5", "6", "7", "8", "9">>

\* the decimal digits nginx writes for a count
RECURSIVE FormatInt(_)
FormatInt(n) ==
    IF n < 10 THEN <<DigitSeq[n + 1]>>
    ELSE FormatInt(n \div 10) \o <<DigitSeq[(n % 10) + 1]>>

DigitValue(c) == CHOOSE v \in 0..9 : DigitSeq[v + 1] = c

\* strconv.ParseInt(tok, 10, 64) on a run of digits
RECURSIVE ParseDigits(_, _)
ParseDigits(tok, n) ==
    IF n = 0 THEN 0
    ELSE 10 * ParseDigits(tok, n - 1) + DigitValue(tok[n])

\* a space of the scanner that is no newline
IsBlank(c) == c \in {" ", "\t", "\r"}

\* first index >= i whose character is no blank, Len(s)+1 at the end
BlankRunEnd(s, i) ==
    SetMin({j \in i..(Len(s) + 1) : j = Len(s) + 1 \/ ~IsBlank(s[j])})

Lit(w) == [t |-> "lit", w |-> w]
FmtSpace == [t |-> "sp", w |-> <<>>]
FmtNewline == [t |-> "nl", w |-> <<>>]
FmtD == [t |-> "d", w |-> <<>>]

wActive == <<"A", "c", "t", "i", "v", "e">>
wConnections == <<"c", "o", "n", "n", "e", "c", "t", "i", "o", "n", "s", ":">>
wServer == <<"s", "e", "r", "v", "e", "r">>
wAccepts == <<"a", "c", "c", "e", "p", "t", "s">>
wHandled == <<"h", "a", "n", "d", "l", "e", "d">>
wRequests == <<"r", "e", "q", "u", "e", "s", "t", "s">>
wReading == <<"R", "e", "a", "d", "i", "n", "g", ":">>
wWriting == <<"W", "r", "i", "t", "i", "n", "g", ":">>
wWaiting == <<"W", "a", "i", "t", "i", "n", "g", ":">>

\* Active connections: %d
\* server accepts handled requests
\* %d %d %d
\* Reading: %d Writing: %d Waiting: %d
templateMetrics ==
    <<Lit(wActive), FmtSpace, Lit(wConnections), FmtSpace, FmtD, FmtNewline,
      Lit(wServer), FmtSpace, Lit(wAccepts), FmtSpace, Lit(wHandled), FmtSpace,
      Lit(wRequests), FmtNewline,
      FmtD, FmtSpace, FmtD, FmtSpace, FmtD, FmtNewline,
      Lit(wReading), FmtSpace, FmtD, FmtSpace, Lit(wWriting), FmtSpace, FmtD,
      FmtSpace, Lit(wWaiting), FmtSpace, FmtD, FmtNewline>>

\* One item of the format against the input s at index i: the index after
\* it, 0 when the scan fails there.
\*   literal text: the same text in the input
\*   a space:      a blank or the end of the input, then the blanks after it
\*   a newline:    blanks, then a newline or the end of the input
\*   %d:           blanks (a newline is an error, so is the end of the
\*                 input), an optional sign, at least one digit
ScanItem(item, s, i) ==
    CASE item.t = "lit" ->
             IF HasPrefixAt(s, i, item.w) THEN i + Len(item.w) ELSE 0
      [] item.t = "sp" ->
             IF i > Len(s) THEN i
             ELSE IF IsBlank(s[i]) THEN BlankRunEnd(s, i) ELSE 0
      [] item.t = "nl" ->
             LET j == BlankRunEnd(s, i)
             IN  IF j > Len(s) THEN j
                 ELSE IF s[j] = "\n" THEN j + 1 ELSE 0
      [] item.t = "d" ->
             LET j == BlankRunEnd(s, i)
                 d == IF j <= Len(s) /\ s[j] \in {"+", "-"} THEN j + 1 ELSE j
                 e == DigitRunEnd(s, d)
             IN  IF j > Len(s) \/ e = d THEN 0 ELSE e

\* the integer a %d that ended at index e read, from index i on
ScannedInt(s, i, e) ==
    LET j == BlankRunEnd(s, i)
        d == IF s[j] \in {"+", "-"} THEN j + 1 ELSE j
        v == ParseDigits(SubSeq(s, d, e - 1), e - d)
    IN  IF s[j] = "-" THEN 0 - v ELSE v

\* fmt.Fscanf from item k on: the scan stops at the first item that fails,
\* and at the end of the format whatever input is left
RECURSIVE Fscanf(_, _, _, _, _)
Fscanf(format, k, s, i, vals) ==
    IF k > Len(format) THEN [err |-> FALSE, vals |-> vals]
    ELSE LET e == ScanItem(format[k], s, i)
         IN  IF e = 0 THEN [err |-> TRUE, vals |-> vals]
             ELSE Fscanf(format, k + 1, s, e,
                         IF format[k].t = "d"
                         THEN Append(vals, ScannedInt(s, i, e))
                         ELSE vals)

\* ---- response bodies ----

\* the text of the status page for the counts `st`: pad is what nginx writes
\* before a newline, lead what it writes before the triple, first the text of
\* the first count, fourth what follows the third count of the triple
StatusText(st, pad, lead, first, fourth) ==
    wActive \o sp \o wConnections \o sp \o first \o pad \o nl
      \o wServer \o sp \o wAccepts \o sp \o wHandled \o sp \o wRequests \o pad \o nl
      \o lead \o FormatInt(st.accepted) \o sp \o FormatInt(st.handled) \o sp
      \o FormatInt(st.requests) \o fourth \o pad \o nl
      \o wReading \o sp \o FormatInt(st.reading) \o sp
      \o wWriting \o sp \o FormatInt(st.writing) \o sp
      \o wWaiting \o sp \o FormatInt(st.waiting) \o pad \o nl

\* the shapes a body can have
\*   nginx          what nginx writes: a blank before each newline and
\*                  before the triple
\*   exact          the template itself with the counts filled in
\*   nonNumeric     a word where the first count belongs
\*   missing        cut off after the second count of the triple
\*   extraInLine    a fourth count on the line of the triple
\*   extraTrailing  a further field after the last line
\*   empty          nothing
BodyKinds ==
    {"nginx", "exact", "nonNumeric", "missing", "extraInLine",
     "extraTrailing", "empty"}

\* a response body: its shape and the counts written into it
Bodies == [kind : BodyKinds, stats : StatsValues]

BodyText(body) ==
    LET st == body.stats
    IN  CASE body.kind = "nginx" ->
                 StatusText(st, sp, sp, FormatInt(st.active), <<>>)
          [] body.kind = "exact" ->
                 StatusText(st, <<>>, <<>>, FormatInt(st.active), <<>>)
          [] body.kind = "nonNumeric" -> StatusText(st, sp, sp, <<"x">>, <<>>)
          [] body.kind = "missing" ->
                 wActive \o sp \o wConnections \o sp \o FormatInt(st.active)
                   \o sp \o nl \o wServer \o sp \o wAccepts \o sp \o wHandled
                   \o sp \o wRequests \o sp \o nl \o sp
                   \o FormatInt(st.accepted) \o sp \o FormatInt(st.handled)
          [] body.kind = "extraInLine" ->
                 StatusText(st, sp, sp, FormatInt(st.active), <<" ", "9">>)
          [] body.kind = "extraTrailing" ->
                 StatusText(st, sp, sp, FormatInt(st.active), <<>>)
                   \o <<"E", "x", "t", "r", "a", ":", " ", "5", " ", "\n">>
          [] body.kind = "empty" -> <<>>

\* what httpClient.Do and io.ReadAll can answer
Responses ==
    [transportOK : BOOLEAN, code : {StatusOK, 503}, readOK : BOOLEAN,
     body : Bodies]

\* the answers a collection cycle draws from: what follows the first failure
\* is never looked at, so one answer stands for each way to fail
CycleResponses ==
    {r \in Responses :
        LET plain == [kind |-> "nginx", stats |-> CHOOSE st \in StatsValues : TRUE]
        IN  /\ ~r.transportOK => r.code = StatusOK
            /\ (~r.transportOK \/ r.code # StatusOK) => r.readOK
            /\ (~r.transportOK \/ r.code # StatusOK \/ ~r.readOK) => r.body = plain}

\* parseStubStats on the text of a body
parseStubStats(text) ==
    LET r == Fscanf(templateMetrics, 1, text, 1, <<>>)
    IN  IF r.err
        THEN [err |-> TRUE, stats |-> NoStats]
        ELSE [err |-> FALSE,
              stats |-> [active |-> r.vals[1], accepted |-> r.vals[2],
                         handled |-> r.vals[3], requests |-> r.vals[4],
                         reading |-> r.vals[5], writing |-> r.vals[6],
                         waiting |-> r.vals[7]]]

\* parseStubStats on each body, as a table (the empty function added on the
\* right leaves it as it is): evaluated once per body and looked up
Parsed == [body \in Bodies |-> parseStubStats(BodyText(body))] @@ <<>>

GetStubStats(resp) ==
    IF ~resp.transportOK THEN [err |-> TRUE, stats |-> NoStats]
    ELSE IF resp.code # StatusOK THEN [err |-> TRUE, stats |-> NoStats]
    ELSE IF ~resp.readOK THEN [err |-> TRUE, stats |-> NoStats]
    ELSE Parsed[resp.body]

\* ------------------------------------------------------------------------
\* Samples sent on the channel
\* ------------------------------------------------------------------------

\* c.upMetric itself is sent: the receiver reads the gauge when it writes
UpSample == [kind |-> "up"]
CounterSample(name, v) == [kind |-> "counter", name |-> name, value |-> v]
\* a sample valued at the time the collector started
ModTimeSampleAtStart(file, t) == [kind |-> "mtime", file |-> file, value |-> 1]

ModTimeSample(file, t) == [kind |-> "mtime", file |-> file, value |-> t]
HealthSample(file, target, v) ==
    [kind |-> "health", file |-> file, target |-> target, value |-> v]

\* connections_handled sent under the descriptor of connections_accepted
CounterSamplesDup(stats) ==
    <<CounterSample("connections_active", stats.active),
      CounterSample("connections_accepted", stats.accepted),
      CounterSample("connections_accepted", stats.handled),
      CounterSample("connections_reading", stats.reading),
      CounterSample("connections_writing", stats.writing),
      CounterSample("connections_waiting", stats.waiting),
      CounterSample("http_requests_total", stats.requests)>>

\* the seven const metrics after the up metric, in the order Collect sends
CounterSamples(stats) ==
    <<CounterSample("connections_active", stats.active),
      CounterSample("connections_accepted", stats.accepted),
      CounterSample("connections_handled", stats.handled),
      CounterSample("connections_reading", stats.reading),
      CounterSample("connections_writing", stats.writing),
      CounterSample("connections_waiting", stats.waiting),
      CounterSample("http_requests_total", stats.requests)>>

\* a loop that probes each distinct target once
RECURSIVE HealthSamplesUnique(_, _, _, _)
HealthSamplesUnique(file, targets, dials, k) ==
    IF k > Len(targets) THEN <<>>
    ELSE (IF \E j \in 1..(k - 1) : targets[j] = targets[k]
          THEN <<>>
          ELSE <<HealthSample(file, targets[k],
                              tcpTest(targets[k], dials[k]).result)>>)
             \o HealthSamplesUnique(file, targets, dials, k + 1)

\* for _, target := range proxyTargets { tcpTest; ch <- health }
RECURSIVE HealthSamples(_, _, _, _)
HealthSamples(file, targets, dials, k) ==
    IF k > Len(targets) THEN <<>>
    ELSE <<HealthSample(file, targets[k], tcpTest(targets[k], dials[k]).result)>>
             \o HealthSamples(file, targets, dials, k + 1)

\* ------------------------------------------------------------------------
\* Bounds
\* ------------------------------------------------------------------------

\* concurrent callers of Collect (scrapes in flight)
NumScrapers == 2

\* modification times run from 1 to MaxModTime
MaxModTime == 2

Procs == 1..NumScrapers

\* ------------------------------------------------------------------------
\* One iteration of the file loops
\* ------------------------------------------------------------------------

\* The three revisions of Collect in the repository:
\*   "mtime"  collector/nginx.go: modification times only
\*   "custom" the revision that calls NginxClient.GetCustomStats
\*   "inline" the revision that extracts and probes inside Collect
Revisions == {"mtime", "custom", "inline"}

\* a filter that looks at the stat alone
SkipConfigFileStatOnly(file, statOK) == ~statOK

\* if err != nil || !strings.HasSuffix(info.Name(), ".conf") { continue }
SkipConfigFile(file, statOK) == ~statOK \/ ~HasSuffix(BaseName(file), dotConf)

\* collector/nginx.go, one iteration of `for _, f := range files`
CollectFileMTime(file, statOK, mtime) ==
    IF SkipConfigFile(file, statOK) THEN <<>>
    ELSE <<ModTimeSample(file, mtime)>>

\* the inline revision: the targets one iteration probes (text is the name
\* of the file's text)
InlineTargets(file, statOK, readOK, text) ==
    IF SkipConfigFile(file, statOK) THEN <<>>
    ELSE LET r == Extraction[readOK, text]
         IN  IF r.err THEN <<>> ELSE r.targets

\* an iteration that sends the health samples and no modification time
CollectFileInlineNoModTime(file, statOK, mtime, readOK, text, dials) ==
    IF SkipConfigFile(file, statOK) THEN <<>>
    ELSE LET r == Extraction[readOK, text]
         IN  IF r.err THEN <<>>
             ELSE HealthSamples(file, r.targets, dials, 1)

\* the inline revision, one iteration of `for _, f := range files`: the
\* samples it sends (dials[k] is how the k-th probe's dial ends)
CollectFileInline(file, statOK, mtime, readOK, text, dials) ==
    IF SkipConfigFile(file, statOK) THEN <<>>
    ELSE LET r == Extraction[readOK, text]
         IN  IF r.err THEN <<>>
             ELSE HealthSamples(file, r.targets, dials, 1)
                      \o <<ModTimeSample(file, mtime)>>

\* GetCustomStats: the targets one iteration probes (the error of
\* extractProxyTarget is dropped, its nil slice ranged over)
CustomTargets(statOK, readOK, text) ==
    IF ~statOK THEN <<>> ELSE Extraction[readOK, text].targets

\* GetCustomStats, one iteration of `for _, file := range files`: the two
\* maps after it
CustomFileStats(stats, file, statOK, mtime, readOK, text, dials) ==
    IF ~statOK THEN stats
    ELSE LET targets == Extraction[readOK, text].targets
             healths == [k \in 1..Len(targets) |->
                            [Target |-> targets[k],
                             Health |-> tcpTest(targets[k], dials[k]).result]]
         IN  [ModifiedTimes |-> (file :> mtime) @@ stats.ModifiedTimes,
              UpstreamHealths |-> (file :> healths) @@ stats.UpstreamHealths]

EmptyCustomStats == [ModifiedTimes |-> <<>>, UpstreamHealths |-> <<>>]

\* the orders in which `range` may visit the keys of a map
KeyOrders(keys) ==
    {o \in [1..Cardinality(keys) -> keys] :
        \A a, b \in 1..Cardinality(keys) : a # b => o[a] # o[b]}

\* for file, modTime := range customStats.ModifiedTimes { ch <- ... }
RECURSIVE SendModifiedTimes(_, _, _)
SendModifiedTimes(stats, order, k) ==
    IF k > Len(order) THEN <<>>
    ELSE <<ModTimeSample(order[k], stats.ModifiedTimes[order[k]])>>
             \o SendModifiedTimes(stats, order, k + 1)

\* for _, health := range healths { ch <- ... }
HealthsOfFile(file, healths) ==
    [k \in 1..Len(healths) |->
        HealthSample(file, healths[k].Target, healths[k].Health)]

\* for file, healths := range customStats.UpstreamHealths { ... }
RECURSIVE SendUpstreamHealths(_, _, _)
SendUpstreamHealths(stats, order, k) ==
    IF k > Len(order) THEN <<>>
    ELSE HealthsOfFile(order[k], stats.UpstreamHealths[order[k]])
             \o SendUpstreamHealths(stats, order, k + 1)

\* ------------------------------------------------------------------------
\* State
\* ------------------------------------------------------------------------

VARIABLES
    rev,          \* the revision of Collect that is running
    layout,       \* the override directory
    primaryText,  \* the name of the text of the primary file
    modTime,      \* each path's modification time
    locked,       \* c.mutex
    upMetric,     \* the value of the gauge c.upMetric
    pc,           \* where each caller of Collect stands
    status,       \* stats, err of GetStubStats in the caller's cycle
    files,        \* the caller's files slice
    idx,          \* the caller's position in the file loop
    custom,       \* the caller's customStats
    ch,           \* what the caller's cycle has sent on its channel
    seen,         \* what the caller's cycle met: per file, stat, read, dials
    \* one pass over one file: extractProxyTarget, then the probes
    xStmts,       \* the statements of the file's text
    xPc,          \* where the pass stands
    xErr,         \* the error extractProxyTarget returned
    xMatches,     \* the captures of the proxy_pass expression
    xAdded,       \* per directive visited, the targets it appended
    xTargets,     \* the targets slice
    xDials,       \* how each probe's dial ended
    xAddrs,       \* the address each probe dialled
    xSamples,     \* the health samples sent
    \* one call of GetStubStats
    gResp,        \* what the endpoint answers
    gPc,          \* where the call stands
    gResult,      \* stats, err it returned
    \* the registry that calls Describe and receives what Collect sends
    obs,          \* per caller, the up metric its receiver holds
    described,    \* how often the last Describe call sent each descriptor
    nDescribe     \* the Describe calls made

collector == <<rev, layout, primaryText, modTime, locked, upMetric, pc, status,
               files, idx, custom, ch, seen>>

scan == <<xStmts, xPc, xErr, xMatches, xAdded, xTargets, xDials, xAddrs,
          xSamples>>

fetch == <<gResp, gPc, gResult>>

registry == <<obs, described, nDescribe>>

vars == <<collector, scan, fetch, registry>>

env == <<rev, layout, primaryText>>

NoStatus == [err |-> FALSE, stats |-> NoStats]

\* no pass over a single file is under way
ScanIdle ==
    /\ xStmts = <<>>
    /\ xPc = "off"
    /\ xErr = FALSE
    /\ xMatches = <<>>
    /\ xAdded = <<>>
    /\ xTargets = <<>>
    /\ xDials = <<>>
    /\ xAddrs = <<>>
    /\ xSamples = <<>>

\* no call of GetStubStats is followed on its own
FetchIdle ==
    /\ gResp = "none"
    /\ gPc = "off"
    /\ gResult = NoStatus

\* the receiver of a caller's channel holds no up metric
NoObs == [state |-> "none", err |-> FALSE, up |-> 0]

\* nothing received and nothing described yet
RegistryIdle ==
    /\ obs = [p \in Procs |-> NoObs]
    /\ described = <<>>
    /\ nDescribe = 0

\* the collector after NewNginxCollector, nobody scraping
CollectorIdle ==
    /\ modTime = [f \in Paths |-> 1]
    /\ locked = FALSE
    /\ upMetric = 0
    /\ pc = [p \in Procs |-> "idle"]
    /\ status = [p \in Procs |-> NoStatus]
    /\ files = [p \in Procs |-> <<>>]
    /\ idx = [p \in Procs |-> 1]
    /\ custom = [p \in Procs |-> EmptyCustomStats]
    /\ ch = [p \in Procs |-> <<>>]
    /\ seen = [p \in Procs |-> <<>>]

Init ==
    /\ rev \in Revisions
    /\ layout \in Layouts
    /\ primaryText \in TextNames
    /\ CollectorIdle
    /\ ScanIdle
    /\ FetchIdle
    /\ RegistryIdle

\* the text os.ReadFile returns for a path, by name
FileText(path) ==
    IF path = PrimaryPath THEN primaryText ELSE OverrideText(path)

\* ------------------------------------------------------------------------
\* Collect, step by step
\* ------------------------------------------------------------------------

\* a lock that never blocks
MutexAlwaysFree(isLocked) == TRUE

\* sync.Mutex.Lock returns only when the mutex is free
MutexFree(isLocked) == ~isLocked

\* a scrape calls Collect
Scrape(p) ==
    /\ pc[p] = "idle"
    /\ pc' = [pc EXCEPT ![p] = "lock"]
    /\ UNCHANGED <<env, scan, fetch, registry, modTime, locked, upMetric,
                   status, files, idx, custom, ch, seen>>

\* c.mutex.Lock(); defer c.mutex.Unlock()
Lock(p) ==
    /\ pc[p] = "lock"
    /\ MutexFree(locked)
    /\ locked' = TRUE
    /\ pc' = [pc EXCEPT ![p] = "fetch"]
    /\ UNCHANGED <<env, scan, fetch, registry, modTime, upMetric, status,
                   files, idx, custom, ch, seen>>

\* stats, err := c.nginxClient.GetStubStats()
FetchStats(p) ==
    /\ pc[p] = "fetch"
    /\ \E resp \in CycleResponses :
          status' = [status EXCEPT ![p] = GetStubStats(resp)]
    /\ pc' = [pc EXCEPT ![p] = "up"]
    /\ UNCHANGED <<env, scan, fetch, registry, modTime, locked, upMetric,
                   files, idx, custom, ch, seen>>

\* an early return that leaves without the deferred unlock
AfterUpReturnsLocked(err) == IF err THEN "idle" ELSE "counters"

\* a Collect that goes on to the files after a failed status fetch
AfterUpPartial(err) == IF err THEN "discover" ELSE "counters"

\* where Collect goes after it has sent the up metric
AfterUp(err) == IF err THEN "unlock" ELSE "counters"

\* c.upMetric.Set(...); ch <- c.upMetric; return on an error
SendUp(p) ==
    /\ pc[p] = "up"
    /\ upMetric' = IF status[p].err THEN nginxDown ELSE nginxUp
    /\ ch' = [ch EXCEPT ![p] = Append(@, UpSample)]
    /\ pc' = [pc EXCEPT ![p] = AfterUp(status[p].err)]
    /\ UNCHANGED <<env, scan, fetch, registry, modTime, locked, status,
                   files, idx, custom, seen>>

\* the seven ch <- prometheus.MustNewConstMetric(...)
SendCounters(p) ==
    /\ pc[p] = "counters"
    /\ ch' = [ch EXCEPT ![p] = @ \o CounterSamples(status[p].stats)]
    /\ pc' = [pc EXCEPT ![p] = "discover"]
    /\ UNCHANGED <<env, scan, fetch, registry, modTime, locked, upMetric,
                   status, files, idx, custom, seen>>

\* files := []string{path}; filepath.WalkDir(confDir, ...)
Discover(p) ==
    /\ pc[p] = "discover"
    /\ files' = [files EXCEPT ![p] = DiscoverFiles(layout)]
    /\ idx' = [idx EXCEPT ![p] = 1]
    /\ custom' = [custom EXCEPT ![p] = EmptyCustomStats]
    /\ pc' = [pc EXCEPT ![p] = "files"]
    /\ UNCHANGED <<env, scan, fetch, registry, modTime, locked, upMetric,
                   status, ch, seen>>

\* what one iteration met: os.Stat, os.ReadFile and the dials
Met(file, statOK, mtime, readOK, dials) ==
    [file |-> file, statOK |-> statOK, mtime |-> mtime, readOK |-> readOK,
     dials |-> dials]

\* the targets the iteration on `file` probes under revision r
TargetsProbed(r, file, statOK, readOK) ==
    CASE r = "mtime" -> <<>>
      [] r = "inline" -> InlineTargets(file, statOK, readOK, FileText(file))
      [] r = "custom" -> CustomTargets(statOK, readOK, FileText(file))

\* `return` in place of `continue`: a skipped file ends the loop
AfterFileStepReturn(i, n, skipped) == IF skipped THEN n + 1 ELSE i + 1

\* `continue`: after an iteration, sent or skipped, the loop goes on with
\* the next of the n files
AfterFileStep(i, n, skipped) == i + 1

\* whether the iteration on `file` reaches os.ReadFile under revision r
ReadsFile(r, file, statOK) ==
    CASE r = "mtime" -> FALSE
      [] r = "inline" -> ~SkipConfigFile(file, statOK)
      [] r = "custom" -> statOK

\* how os.ReadFile can end, TRUE alone when it is not called
ReadOutcomes(r, file, statOK) ==
    IF ReadsFile(r, file, statOK) THEN BOOLEAN ELSE {TRUE}

\* one iteration of the file loop: in Collect (mtime, inline) or in
\* GetCustomStats (custom)
FileStep(p) ==
    /\ pc[p] = "files"
    /\ idx[p] <= Len(files[p])
    /\ LET f == files[p][idx[p]]
       IN  \E statOK \in BOOLEAN :
           \E readOK \in ReadOutcomes(rev, f, statOK) :
             \E dials \in [1..Len(TargetsProbed(rev, f, statOK, readOK))
                             -> CycleDials] :
                /\ seen' = [seen EXCEPT
                              ![p] = Append(@, Met(f, statOK, modTime[f],
                                                   readOK, dials))]
                /\ ch' = [ch EXCEPT
                            ![p] = @ \o
                               (CASE rev = "mtime" ->
                                        CollectFileMTime(f, statOK, modTime[f])
                                  [] rev = "inline" ->
                                        CollectFileInline(f, statOK, modTime[f],
                                                          readOK, FileText(f),
                                                          dials)
                                  [] rev = "custom" -> <<>>)]
                /\ custom' = [custom EXCEPT
                                ![p] = IF rev = "custom"
                                       THEN CustomFileStats(@, f, statOK,
                                                modTime[f], readOK,
                                                FileText(f), dials)
                                       ELSE @]
                /\ idx' = [idx EXCEPT
                             ![p] = AfterFileStep(@, Len(files[p]),
                                        IF rev = "custom" THEN ~statOK
                                        ELSE SkipConfigFile(f, statOK)
                                                 \/ ~readOK)]
    /\ UNCHANGED <<env, scan, fetch, registry, modTime, locked, upMetric, pc,
                   status, files>>

\* the file loop is over: Collect returns (mtime, inline) or GetCustomStats
\* returns customStats, nil (custom)
FilesDone(p) ==
    /\ pc[p] = "files"
    /\ idx[p] > Len(files[p])
    /\ pc' = [pc EXCEPT ![p] = IF rev = "custom" THEN "send" ELSE "unlock"]
    /\ UNCHANGED <<env, scan, fetch, registry, modTime, locked, upMetric,
                   status, files, idx, custom, ch, seen>>

\* the custom revision: the two range loops over the maps of customStats
SendCustom(p) ==
    /\ pc[p] = "send"
    /\ \E o1 \in KeyOrders(DOMAIN custom[p].ModifiedTimes),
          o2 \in KeyOrders(DOMAIN custom[p].UpstreamHealths) :
          ch' = [ch EXCEPT
                   ![p] = @ \o SendModifiedTimes(custom[p], o1, 1)
                            \o SendUpstreamHealths(custom[p], o2, 1)]
    /\ pc' = [pc EXCEPT ![p] = "unlock"]
    /\ UNCHANGED <<env, scan, fetch, registry, modTime, locked, upMetric,
                   status, files, idx, custom, seen>>

\* Collect returns: the deferred c.mutex.Unlock() runs and the cycle's
\* locals are gone
Unlock(p) ==
    /\ pc[p] = "unlock"
    /\ locked' = FALSE
    /\ pc' = [pc EXCEPT ![p] = "idle"]
    /\ status' = [status EXCEPT ![p] = NoStatus]
    /\ files' = [files EXCEPT ![p] = <<>>]
    /\ idx' = [idx EXCEPT ![p] = 1]
    /\ custom' = [custom EXCEPT ![p] = EmptyCustomStats]
    /\ ch' = [ch EXCEPT ![p] = <<>>]
    /\ seen' = [seen EXCEPT ![p] = <<>>]
    /\ UNCHANGED <<env, scan, fetch, registry, modTime, upMetric>>

\* the primary configuration file is edited
Touch ==
    /\ modTime[PrimaryPath] < MaxModTime
    /\ modTime' = [modTime EXCEPT ![PrimaryPath] = @ + 1]
    /\ UNCHANGED <<env, scan, fetch, registry, locked, upMetric, pc, status,
                   files, idx, custom, ch, seen>>

Next ==
    \/ \E p \in Procs :
          \/ Scrape(p)
          \/ Lock(p)
          \/ FetchStats(p)
          \/ SendUp(p)
          \/ SendCounters(p)
          \/ Discover(p)
          \/ FileStep(p)
          \/ FilesDone(p)
          \/ SendCustom(p)
          \/ Unlock(p)
    \/ Touch

Spec == Init /\ [][Next]_vars

\* ------------------------------------------------------------------------
\* One pass over one file: extractProxyTarget step by step, then the probes
\* ------------------------------------------------------------------------

\* the statements a text is made of, at most MaxStmts of them
MaxStmts == 2

StmtNames ==
    {"passIp", "passB", "passAB", "passWeb", "passNone", "passCD", "blockB",
     "blockAB", "blockDup", "noise"}

StmtText(name) ==
    CASE name = "passIp" -> ProxyPassStmt(kwHttp \o addrA)
      [] name = "passB" -> ProxyPassStmt(kwHttp \o nameB)
      [] name = "passAB" -> ProxyPassStmt(kwHttp \o nameAB)
      \* proxy_pass   https://web ;
      [] name = "passWeb" ->
             kwProxyPass \o <<" ", " ", " ">> \o kwHttps \o hostWeb \o <<" ", ";">>
      [] name = "passNone" -> ProxyPassStmt(kwHttp \o nameNone)
      [] name = "passCD" -> ProxyPassStmt(kwHttp \o nameCD)
      \* upstream c_d { server 10.0.0.1:80; server 10.0.0.1:80; }
      [] name = "blockDup" -> UpstreamStmt(nameCD, <<addr1, addr1>>)
      [] name = "blockB" -> UpstreamStmt(nameB, <<addr1, addr2>>)
      [] name = "blockAB" -> UpstreamStmt(nameAB, <<addr2, addr1>>)
      \* server { listen 80; }
      [] name = "noise" ->
             kwServer \o <<" ", "{", " ", "l", "i", "s", "t", "e", "n", " ",
                           "8", "0", ";", " ", "}">>

\* the statements, one per line
RECURSIVE JoinStmts(_, _)
JoinStmts(stmts, k) ==
    IF k > Len(stmts) THEN <<>>
    ELSE StmtText(stmts[k]) \o nl \o JoinStmts(stmts, k + 1)

XText == JoinStmts(xStmts, 1)

\* the file gets one more statement
AddStmt(st) ==
    /\ xPc = "text"
    /\ Len(xStmts) < MaxStmts
    /\ xStmts' = Append(xStmts, st)
    /\ UNCHANGED <<collector, fetch, registry, xPc, xErr, xMatches, xAdded,
                   xTargets, xDials, xAddrs, xSamples>>

\* content, err := os.ReadFile(filePath) fails: return nil, err
ReadFails ==
    /\ xPc = "text"
    /\ xErr' = extractProxyTarget(FALSE, XText).err
    /\ xPc' = "done"
    /\ UNCHANGED <<collector, fetch, registry, xStmts, xMatches, xAdded,
                   xTargets, xDials, xAddrs, xSamples>>

\* the read succeeds: matches := re.FindAllStringSubmatch(contentStr, -1)
ReadFile ==
    /\ xPc = "text"
    /\ xMatches' = ProxyPassMatches(XText, 1)
    /\ xPc' = "scan"
    /\ UNCHANGED <<collector, fetch, registry, xStmts, xErr, xAdded,
                   xTargets, xDials, xAddrs, xSamples>>

\* one iteration of `for _, match := range matches`
ScanStep ==
    /\ xPc = "scan"
    /\ Len(xAdded) < Len(xMatches)
    /\ LET add == DirectiveTargets(XText, xMatches[Len(xAdded) + 1])
       IN  /\ xAdded' = Append(xAdded, add)
           /\ xTargets' = xTargets \o add
    /\ UNCHANGED <<collector, fetch, registry, xStmts, xPc, xErr, xMatches,
                   xDials, xAddrs, xSamples>>

\* return targets, nil
ScanDone ==
    /\ xPc = "scan"
    /\ Len(xAdded) = Len(xMatches)
    /\ xPc' = "probe"
    /\ UNCHANGED <<collector, fetch, registry, xStmts, xErr, xMatches,
                   xAdded, xTargets, xDials, xAddrs, xSamples>>

\* for _, target := range proxyTargets { tcpTest(target); ch <- ... }
Probe ==
    /\ xPc = "probe"
    /\ \E dials \in [1..Len(xTargets) -> DialOutcomes] :
          /\ xDials' = dials
          /\ xAddrs' = [k \in 1..Len(xTargets) |->
                           tcpTest(xTargets[k], dials[k]).addr]
          /\ xSamples' = HealthSamples(PrimaryPath, xTargets, dials, 1)
    /\ xPc' = "done"
    /\ UNCHANGED <<collector, fetch, registry, xStmts, xErr, xMatches,
                   xAdded, xTargets>>

FileInit ==
    /\ rev = "inline"
    /\ layout = [exists |-> FALSE, entries |-> {}]
    /\ primaryText = "none"
    /\ CollectorIdle
    /\ xStmts = <<>>
    /\ xPc = "text"
    /\ xErr = FALSE
    /\ xMatches = <<>>
    /\ xAdded = <<>>
    /\ xTargets = <<>>
    /\ xDials = <<>>
    /\ xAddrs = <<>>
    /\ xSamples = <<>>
    /\ FetchIdle
    /\ RegistryIdle

FileNext ==
    \/ \E st \in StmtNames : AddStmt(st)
    \/ ReadFails
    \/ ReadFile
    \/ ScanStep
    \/ ScanDone
    \/ Probe

SpecFile == FileInit /\ [][FileNext]_vars

\* ------------------------------------------------------------------------
\* Properties of the collection cycle (under Spec)
\* ------------------------------------------------------------------------

\* the caller is inside the body of Collect, between Lock and the return
InCycle(p) ==
    pc[p] \in {"fetch", "up", "counters", "discover", "files", "send", "unlock"}

\* the body of Collect has run to its return; the deferred Unlock is next
AtReturn(p) == pc[p] = "unlock"

CounterNames ==
    {"connections_active", "connections_accepted", "connections_handled",
     "connections_reading", "connections_writing", "connections_waiting",
     "http_requests_total"}

OfKind(samples, kind) == SelectSeq(samples, LAMBDA x : x.kind = kind)

\* the samples of one kind ("mtime" or "health") that carry the file label
OfFile(samples, kind, file) ==
    SelectSeq(samples, LAMBDA x : x.kind = kind /\ x.file = file)

OfCounter(samples, name) ==
    SelectSeq(samples, LAMBDA x : x.kind = "counter" /\ x.name = name)

\* whether the revision reports the file it met: stat succeeded, and for the
\* revisions that filter and read before they send, the name and the read
Reported(r, m) ==
    CASE r = "custom" -> m.statOK
      [] r = "mtime" -> m.statOK /\ HasSuffix(BaseName(m.file), dotConf)
      [] r = "inline" ->
             m.statOK /\ HasSuffix(BaseName(m.file), dotConf) /\ m.readOK

\* what a file's own stat, read and dials call for, whatever the other
\* files met
ExpectedModTime(r, m) ==
    IF Reported(r, m) THEN <<ModTimeSample(m.file, m.mtime)>> ELSE <<>>

ExpectedHealth(r, m) ==
    IF r = "mtime" \/ ~Reported(r, m) \/ ~m.readOK THEN <<>>
    ELSE LET t == Extraction[TRUE, FileText(m.file)].targets
         IN  [k \in 1..Len(t) |->
                 HealthSample(m.file, t[k],
                              IF m.dials[k] = "connected" THEN 1 ELSE 0)]

\* C1: the bodies of two Collect calls on one collector never interleave.
\* While one caller is between Lock and its return the mutex is held and
\* every other caller is outside Collect or blocked in Lock, having fetched
\* nothing, visited no file and sent nothing; so a caller fetches the status
\* only after the one before it sent its last sample and released the mutex.
C1_BodiesNeverInterleave ==
    \A p \in Procs :
        InCycle(p) =>
            /\ locked
            /\ \A q \in Procs \ {p} :
                  /\ pc[q] \in {"idle", "lock"}
                  /\ ch[q] = <<>>
                  /\ seen[q] = <<>>
                  /\ files[q] = <<>>

C1_Witness ==
    \E p, q \in Procs :
        /\ p # q
        /\ pc[p] = "files"
        /\ Len(ch[p]) > 1
        /\ pc[q] = "lock"

\* C2, as claimed: in a cycle whose status fetch failed, Collect still visits
\* every discovered file and sends the modification-time and health samples
\* the files call for.
C2_Original_FilesSentAfterFailedFetch ==
    \A p \in Procs :
        (AtReturn(p) /\ status[p].err) =>
            /\ Len(seen[p]) = Len(DiscoverFiles(layout))
            /\ \A k \in 1..Len(seen[p]) :
                  /\ OfFile(ch[p], "mtime", seen[p][k].file)
                         = ExpectedModTime(rev, seen[p][k])
                  /\ OfFile(ch[p], "health", seen[p][k].file)
                         = ExpectedHealth(rev, seen[p][k])

\* C2, amended: in a cycle whose status fetch failed, Collect sets the up
\* gauge to 0, sends the up metric alone and returns; it discovers and
\* visits no file and sends no modification-time and no health sample.
C2_FailedFetchSendsUpOnly ==
    \A p \in Procs :
        (AtReturn(p) /\ status[p].err) =>
            /\ ch[p] = <<UpSample>>
            /\ upMetric = nginxDown
            /\ files[p] = <<>>
            /\ seen[p] = <<>>

C2_Witness ==
    \E p \in Procs : AtReturn(p) /\ status[p].err /\ Len(ch[p]) = 1

\* C3: at the return of every cycle one up metric has been sent; its gauge
\* reads 0 exactly when GetStubStats returned an error and 1 otherwise; and
\* each of the seven live counters has been sent exactly once when the gauge
\* reads 1 and not at all when it reads 0.
C3_UpIffFetchedCountersIffUp ==
    \A p \in Procs :
        AtReturn(p) =>
            /\ Len(OfKind(ch[p], "up")) = 1
            /\ upMetric \in {nginxDown, nginxUp}
            /\ (upMetric = nginxDown) <=> status[p].err
            /\ \A n \in CounterNames :
                  Len(OfCounter(ch[p], n)) = IF upMetric = nginxUp THEN 1 ELSE 0
            /\ Len(OfKind(ch[p], "counter"))
                   = IF upMetric = nginxUp THEN Cardinality(CounterNames) ELSE 0

C3_Witness ==
    \E p \in Procs :
        /\ AtReturn(p)
        /\ ~status[p].err
        /\ upMetric = nginxUp
        /\ Len(OfKind(ch[p], "counter")) = 7

\* C8: when the override directory does not exist, discovery yields the
\* primary path alone and the cycle goes on with that one file: the file
\* loop visits it and Collect reaches its return.
C8_MissingOverrideDirYieldsPrimary ==
    \A p \in Procs :
        (~layout.exists /\ ~status[p].err) =>
            /\ pc[p] \in {"files", "send", "unlock"} => files[p] = <<PrimaryPath>>
            /\ pc[p] \in {"send", "unlock"} =>
                  /\ Len(seen[p]) = 1
                  /\ seen[p][1].file = PrimaryPath

C8_Witness ==
    \E p \in Procs :
        /\ ~layout.exists
        /\ AtReturn(p)
        /\ files[p] = <<PrimaryPath>>
        /\ Len(seen[p]) = 1
        /\ seen[p][1].statOK

\* C9: in a cycle that reaches the file loop, the loop visits every
\* discovered file, in order, whatever happened to the files before it, and
\* the samples sent with a file's label are the ones that file's own stat,
\* name, read and dials call for: its modification time once, and one health
\* sample per extracted target valued by that target's own dial.  A failed
\* stat or read, or a failed probe, of another file changes none of them.
C9_FailuresStayWithTheirFile ==
    \A p \in Procs :
        (AtReturn(p) /\ ~status[p].err) =>
            /\ Len(seen[p]) = Len(DiscoverFiles(layout))
            /\ \A k \in 1..Len(seen[p]) :
                  /\ seen[p][k].file = DiscoverFiles(layout)[k]
                  /\ OfFile(ch[p], "mtime", seen[p][k].file)
                         = ExpectedModTime(rev, seen[p][k])
                  /\ OfFile(ch[p], "health", seen[p][k].file)
                         = ExpectedHealth(rev, seen[p][k])

\* a file whose stat failed, and a later file with a failed probe and its
\* modification time sent
C9_Witness ==
    \E p \in Procs :
        /\ AtReturn(p)
        /\ \E j, k \in 1..Len(seen[p]) :
              /\ j < k
              /\ ~seen[p][j].statOK
              /\ OfFile(ch[p], "mtime", seen[p][k].file) # <<>>
              /\ \E h \in 1..Len(ch[p]) :
                    /\ ch[p][h].kind = "health"
                    /\ ch[p][h].file = seen[p][k].file
                    /\ ch[p][h].value = TcpFailure

\* C10: at the return of every cycle, each health sample sent carries the
\* label of a file of that cycle's file set whose stat succeeded in that
\* cycle and for which a modification-time sample was sent in that cycle.
C10_HealthOnlyForReportedFiles ==
    \A p \in Procs :
        AtReturn(p) =>
            \A h \in 1..Len(ch[p]) :
                ch[p][h].kind = "health" =>
                    /\ \E j \in 1..Len(ch[p]) :
                          /\ ch[p][j].kind = "mtime"
                          /\ ch[p][j].file = ch[p][h].file
                    /\ \E i \in 1..Len(seen[p]) :
                          /\ seen[p][i].file = ch[p][h].file
                          /\ seen[p][i].statOK
                          /\ files[p][i] = ch[p][h].file

\* a cycle with health samples in which another file was dropped
C10_Witness ==
    \E p \in Procs :
        /\ AtReturn(p)
        /\ \E h \in 1..Len(ch[p]) : ch[p][h].kind = "health"
        /\ \E i \in 1..Len(seen[p]) : ~seen[p][i].statOK

\* the targets of the health samples sent for a file, in order
HealthTargets(samples, file) ==
    LET hs == OfFile(samples, "health", file)
    IN  [k \in 1..Len(hs) |-> hs[k].target]

\* C4, as claimed: a cycle over a primary file that holds scenario B
\* (upstream b with two servers, proxy_pass http://b;) sends exactly two
\* health samples for that file, for 10.0.0.1:80 and 10.0.0.2:80; the group
\* name b is not a target.
C4_ScenarioBTwoTargets ==
    \A p \in Procs :
        (/\ AtReturn(p)
         /\ rev = "inline"
         /\ primaryText = "scenarioB"
         /\ Len(seen[p]) >= 1
         /\ seen[p][1].statOK
         /\ seen[p][1].readOK) =>
            HealthTargets(ch[p], PrimaryPath) = <<addr1, addr2>>

\* ------------------------------------------------------------------------
\* Properties of the extraction (under SpecFile)
\* ------------------------------------------------------------------------

\* What the statements of a text say, read off the statements themselves.

IsPass(st) ==
    st \in {"passIp", "passB", "passAB", "passWeb", "passNone", "passCD"}

\* the forwarding directives of the text, in file order
PassStmts == SelectSeq(xStmts, IsPass)

\* the value a forwarding directive gives
PassValue(st) ==
    CASE st = "passIp" -> kwHttp \o addrA
      [] st = "passB" -> kwHttp \o nameB
      [] st = "passAB" -> kwHttp \o nameAB
      [] st = "passWeb" -> kwHttps \o hostWeb
      [] st = "passNone" -> kwHttp \o nameNone
      [] st = "passCD" -> kwHttp \o nameCD

\* that value without its leading http:// or https://
SchemeRemoved(value) ==
    IF HasPrefixAt(value, 1, kwHttp) THEN SubSeq(value, 8, Len(value))
    ELSE IF HasPrefixAt(value, 1, kwHttps) THEN SubSeq(value, 9, Len(value))
    ELSE value

\* the upstream block statement that declares the group a directive names
BlockOf(st) ==
    CASE st = "passB" -> "blockB"
      [] st = "passAB" -> "blockAB"
      [] st = "passCD" -> "blockDup"
      [] OTHER -> "nowhere"

\* the server entries of a block statement, in block order
BlockServers(blk) ==
    CASE blk = "blockB" -> <<addr1, addr2>>
      [] blk = "blockAB" -> <<addr2, addr1>>
      [] blk = "blockDup" -> <<addr1, addr1>>

Declared(blk) == \E k \in 1..Len(xStmts) : xStmts[k] = blk

\* the directive's value is an address or a hostname
IsDirect(st) ==
    \/ ipFormat(SchemeRemoved(PassValue(st)))
    \/ domainFormat(SchemeRemoved(PassValue(st)))

RECURSIVE Flatten(_, _)
Flatten(seqs, k) ==
    IF k > Len(seqs) THEN <<>> ELSE seqs[k] \o Flatten(seqs, k + 1)

\* the pass has returned from extractProxyTarget without an error
Extracted == xPc \in {"probe", "done"} /\ ~xErr

\* C5, as claimed: a forwarding directive that names an upstream group
\* declared in the same file contributes exactly the server addresses of
\* that group's block, all of them and in block order.
C5_GroupContributesItsServers ==
    \A k \in 1..Len(xAdded) :
        (k <= Len(PassStmts) /\ Declared(BlockOf(PassStmts[k]))) =>
            xAdded[k] = BlockServers(BlockOf(PassStmts[k]))

\* C6: a forwarding directive whose value without its scheme is an
\* IPv4 address or a hostname, each with an optional port, contributes that
\* value as its one target.  The file that holds only
\* proxy_pass http://10.0.0.5:9000; yields the one target 10.0.0.5:9000;
\* every target is probed once, in order, and the health sample of a probe
\* whose dial is refused is 0.
C6_DirectTargetVerbatim ==
    /\ \A k \in 1..Len(xAdded) :
          (k <= Len(PassStmts) /\ IsDirect(PassStmts[k])) =>
              xAdded[k] = <<SchemeRemoved(PassValue(PassStmts[k]))>>
    /\ (Extracted /\ xStmts = <<"passIp">>) => xTargets = <<addrA>>
    /\ (xPc = "done" /\ ~xErr) =>
          /\ Len(xSamples) = Len(xTargets)
          /\ \A k \in 1..Len(xSamples) :
                /\ xSamples[k].file = PrimaryPath
                /\ xSamples[k].target = xTargets[k]
                /\ xDials[k] = "refused" => xSamples[k].value = 0

\* scenario A probed with nothing listening
C6_Witness ==
    /\ xPc = "done"
    /\ xStmts = <<"passIp">>
    /\ Len(xSamples) = 1
    /\ xDials[1] = "refused"
    /\ xSamples[1].value = 0

\* the directive names a group (its value is no address and no hostname)
\* that no block of the file declares
Unresolved(st) == IsPass(st) /\ ~IsDirect(st) /\ ~Declared(BlockOf(st))

\* C7: over a text that was read, extractProxyTarget returns no error.  It
\* visits every forwarding directive; a text without one yields no target; a
\* directive that names a group no block declares contributes nothing, and
\* the targets returned are the contributions of the directives in file
\* order, those after such a directive included.
C7_ExtractionNeverFails ==
    /\ ~extractProxyTarget(TRUE, XText).err
    /\ Extracted =>
          /\ xTargets = extractProxyTarget(TRUE, XText).targets
          /\ Len(xAdded) = Len(PassStmts)
          /\ PassStmts = <<>> => xTargets = <<>>
          /\ \A k \in 1..Len(xAdded) : Unresolved(PassStmts[k]) => xAdded[k] = <<>>
          /\ \A k \in 1..Len(xAdded) :
                IsDirect(PassStmts[k]) =>
                    xAdded[k] = <<SchemeRemoved(PassValue(PassStmts[k]))>>
          /\ xTargets = Flatten(xAdded, 1)

\* an unresolved directive first, a direct one after it, its target returned
C7_Witness ==
    /\ Extracted
    /\ Len(PassStmts) >= 2
    /\ Unresolved(PassStmts[1])
    /\ xAdded[1] = <<>>
    /\ xTargets # <<>>

\* how many elements of a sequence equal x
Count(seq, x) == Cardinality({k \in 1..Len(seq) : seq[k] = x})

\* C11: duplicate targets are preserved.  The targets extracted are the
\* contributions of the directives, duplicates included: a directive repeated
\* contributes again, and a group lists a member as often as its block does.
\* The pass over the file probes each extracted target once per occurrence
\* and sends one health sample per probe, in the order of extraction, so a
\* target extracted k times is probed k times and gets k health samples.
C11_DuplicatesPreservedInOrder ==
    /\ Extracted =>
          /\ xTargets = Flatten(xAdded, 1)
          /\ xStmts = <<"passIp", "passIp">> => xTargets = <<addrA, addrA>>
          /\ xStmts = <<"blockDup", "passCD">> => xTargets = <<addr1, addr1>>
    /\ (xPc = "done" /\ ~xErr) =>
          /\ Len(xDials) = Len(xTargets)
          /\ Len(xSamples) = Len(xTargets)
          /\ \A k \in 1..Len(xSamples) :
                /\ xSamples[k].target = xTargets[k]
                /\ xSamples[k].value = tcpTest(xTargets[k], xDials[k]).result
          /\ \A t \in {xTargets[k] : k \in 1..Len(xTargets)} :
                Count([k \in 1..Len(xSamples) |-> xSamples[k].target], t)
                    = Count(xTargets, t)

\* a group that lists one member twice: two probes, two samples for it
C11_Witness ==
    /\ xPc = "done"
    /\ xStmts = <<"blockDup", "passCD">>
    /\ xTargets = <<addr1, addr1>>
    /\ Len(xSamples) = 2
    /\ xSamples[1].target = addr1
    /\ xSamples[2].target = addr1
    /\ xDials[1] # xDials[2]

\* ------------------------------------------------------------------------
\* Modification-time samples (under Spec)
\* ------------------------------------------------------------------------

\* C12, as claimed: in a cycle that reaches discovery, every discovered file
\* whose stat succeeded, whatever its name, gets exactly one
\* modification-time sample keyed by its path and valued at the modification
\* time the stat returned.
C12_Original_EveryStattedFileReported ==
    \A p \in Procs :
        (AtReturn(p) /\ ~status[p].err) =>
            \A k \in 1..Len(seen[p]) :
                seen[p][k].statOK =>
                    OfFile(ch[p], "mtime", seen[p][k].file)
                        = <<ModTimeSample(seen[p][k].file, seen[p][k].mtime)>>

\* C12, amended: a discovered file gets exactly one modification-time
\* sample, keyed by its path and valued at the time its stat returned, when
\* its stat succeeded and, in the loops of Collect itself, its base name ends
\* in .conf and, in the revision that extracts inside Collect, its read
\* succeeded as well; GetCustomStats records every statted file whatever its
\* name.  Every other discovered file gets none, and no sample is keyed by a
\* path that was not discovered.
C12_ModTimeForReportedFiles ==
    \A p \in Procs :
        (AtReturn(p) /\ ~status[p].err) =>
            /\ \A k \in 1..Len(seen[p]) :
                  LET m == seen[p][k]
                      named == HasSuffix(BaseName(m.file), dotConf)
                      due == CASE rev = "custom" -> m.statOK
                               [] rev = "mtime" -> m.statOK /\ named
                               [] rev = "inline" -> m.statOK /\ named /\ m.readOK
                  IN  OfFile(ch[p], "mtime", m.file)
                          = IF due THEN <<ModTimeSample(m.file, m.mtime)>> ELSE <<>>
            /\ \A h \in 1..Len(ch[p]) :
                  ch[p][h].kind = "mtime" =>
                      \E k \in 1..Len(files[p]) : files[p][k] = ch[p][h].file

\* a statted override file without the suffix next to a reported primary
C12_Witness ==
    \E p \in Procs :
        /\ AtReturn(p)
        /\ rev = "mtime"
        /\ Len(seen[p]) = 2
        /\ seen[p][1].statOK
        /\ seen[p][2].file = "conf.d/notes"
        /\ seen[p][2].statOK
        /\ OfFile(ch[p], "mtime", "conf.d/notes") = <<>>
        /\ OfFile(ch[p], "mtime", PrimaryPath) # <<>>

\* ------------------------------------------------------------------------
\* The probe (under SpecFile)
\* ------------------------------------------------------------------------

\* the target with :80 appended when it holds no colon
WithDefaultPort(target) ==
    IF \E j \in 1..Len(target) : target[j] = ":"
    THEN target
    ELSE target \o <<":", "8", "0">>

\* C13: tcpTest is total and returns no error.  Whatever the targets, the
\* probes of a file can run, however each dial ends; each probe dials the
\* target itself when it holds a colon and the target with :80 appended
\* otherwise; its result is 1 exactly when the dial connected and 0 when the
\* dial was refused, timed out or failed to resolve; the error it returns is
\* nil for every target and every outcome of the dial.
C13_ProbeTotalNoError ==
    /\ xPc = "probe" => ENABLED Probe
    /\ \A k \in 1..Len(xTargets) :
          \A d \in DialOutcomes : ~tcpTest(xTargets[k], d).err
    /\ xPc = "done" /\ ~xErr =>
          /\ Len(xAddrs) = Len(xTargets)
          /\ \A k \in 1..Len(xTargets) :
                /\ xAddrs[k] = WithDefaultPort(xTargets[k])
                /\ xSamples[k].value \in {TcpSuccess, TcpFailure}
                /\ (xSamples[k].value = TcpSuccess) <=> (xDials[k] = "connected")

\* a host without a port, dialled at port 80, and the dial timed out; an
\* address with a port, dialled as it stands, and the dial connected
C13_Witness ==
    /\ xPc = "done"
    /\ xStmts = <<"passWeb", "passIp">>
    /\ xTargets = <<hostWeb, addrA>>
    /\ xAddrs = <<hostWeb \o <<":", "8", "0">>, addrA>>
    /\ xDials = <<"timeout", "connected">>
    /\ xSamples[1].value = TcpFailure
    /\ xSamples[2].value = TcpSuccess

\* ------------------------------------------------------------------------
\* One call of GetStubStats
\* ------------------------------------------------------------------------

\* the endpoint answers the request
Respond ==
    /\ gPc = "wait"
    /\ gResp' \in Responses
    /\ gPc' = "call"
    /\ UNCHANGED <<collector, scan, registry, gResult>>

\* GetStubStats runs over that answer and returns
CallGetStubStats ==
    /\ gPc = "call"
    /\ gResult' = GetStubStats(gResp)
    /\ gPc' = "done"
    /\ UNCHANGED <<collector, scan, registry, gResp>>

FetchInit ==
    /\ rev = "mtime"
    /\ layout = [exists |-> FALSE, entries |-> {}]
    /\ primaryText = "none"
    /\ CollectorIdle
    /\ ScanIdle
    /\ RegistryIdle
    /\ gResp = "none"
    /\ gPc = "wait"
    /\ gResult = NoStatus

FetchNext == Respond \/ CallGetStubStats

SpecFetch == FetchInit /\ [][FetchNext]_vars

\* the body is the template with seven counts in their places, as nginx
\* writes it or with nothing added: no field more, none less, every count a
\* number
MatchesTemplate(body) == body.kind \in {"nginx", "exact"}

\* C14, as claimed: GetStubStats returns a snapshot exactly when the
\* transport succeeded, the response code is 200, the body was read and the
\* body matches the template exactly; the snapshot holds the counts of the
\* body; every other outcome, a body with a field more or a field less or a
\* word for a count among them, returns an error and no snapshot.
C14_SnapshotOnlyForExactTemplate ==
    gPc = "done" =>
        /\ ~gResult.err <=>
              /\ gResp.transportOK
              /\ gResp.code = StatusOK
              /\ gResp.readOK
              /\ MatchesTemplate(gResp.body)
        /\ ~gResult.err => gResult.stats = gResp.body.stats
        /\ gResult.err => gResult.stats = NoStats

\* ------------------------------------------------------------------------
\* The registry: it receives what Collect sends and calls Describe
\* ------------------------------------------------------------------------

\* Describe calls followed
MaxDescribes == 2

\* The receiver of caller p's channel takes the up metric Collect sent.  What
\* it takes is the gauge c.upMetric itself, not a copy of its value; err is
\* the outcome of the status fetch of the cycle that sent it.
Receive(p) ==
    /\ pc[p] \in {"counters", "discover", "files", "send", "unlock"}
    /\ obs[p].state = "none"
    /\ obs' = [obs EXCEPT
                 ![p] = [state |-> "unread", err |-> status[p].err, up |-> 0]]
    /\ UNCHANGED <<collector, scan, fetch, described, nDescribe>>

\* The receiver writes the metric out: it reads the gauge now, without the
\* collector's mutex, whatever Collect calls ran since the send.
ReadUp(p) ==
    /\ obs[p].state = "unread"
    /\ obs' = [obs EXCEPT ![p] = [@ EXCEPT !.state = "read", !.up = upMetric]]
    /\ UNCHANGED <<collector, scan, fetch, described, nDescribe>>

\* the receiver is done with what that Collect call sent
Gathered(p) ==
    /\ obs[p].state = "read"
    /\ obs' = [obs EXCEPT ![p] = NoObs]
    /\ UNCHANGED <<collector, scan, fetch, described, nDescribe>>

DescUp == "up"
DescConfigMod == "config_last_modified_seconds"
DescUpstreamHealth == "upstream_health_check_status"

\* for _, m := range c.metrics { ch <- m }: the seven descriptors, each
\* once; the order of a range over a map is not fixed, and only how often
\* each descriptor was sent is kept
MetricsRange ==
    <<"connections_active", "connections_accepted", "connections_handled",
      "connections_reading", "connections_writing", "connections_waiting",
      "http_requests_total">>

\* what Describe sends, by revision
DescribeSends(r) ==
    CASE r = "mtime" -> <<DescUp>> \o MetricsRange \o <<DescConfigMod>>
      [] r = "custom" ->
             <<DescUp, DescConfigMod, DescUpstreamHealth>> \o MetricsRange
      [] r = "inline" ->
             <<DescUp>> \o MetricsRange \o <<DescConfigMod, DescUpstreamHealth>>

\* how often each element occurs in a sequence
Occurrences(seq) ==
    [x \in {seq[k] : k \in 1..Len(seq)} |->
        Cardinality({k \in 1..Len(seq) : seq[k] = x})]

\* a Describe that takes the collector's mutex first
DescribeLocked ==
    /\ nDescribe < MaxDescribes
    /\ ~locked
    /\ described' = Occurrences(DescribeSends(rev))
    /\ nDescribe' = nDescribe + 1
    /\ UNCHANGED <<collector, scan, fetch, obs>>

\* NginxCollector.Describe: it sends the descriptors and touches nothing
\* else
Describe ==
    /\ nDescribe < MaxDescribes
    /\ described' = Occurrences(DescribeSends(rev))
    /\ nDescribe' = nDescribe + 1
    /\ UNCHANGED <<collector, scan, fetch, obs>>

ScrapeInit ==
    /\ rev \in Revisions
    /\ layout = [exists |-> FALSE, entries |-> {}]
    /\ primaryText = "none"
    /\ CollectorIdle
    /\ ScanIdle
    /\ FetchIdle
    /\ RegistryIdle

ScrapeNext ==
    \/ Next
    \/ \E p \in Procs :
          \/ Receive(p)
          \/ ReadUp(p)
          \/ Gathered(p)

SpecScrape == ScrapeInit /\ [][ScrapeNext]_vars

\* the registry calls Describe while scrapes go on
DescribeNext ==
    \/ Next
    \/ Describe

SpecDescribe == ScrapeInit /\ [][DescribeNext]_vars

\* C15, as claimed: whenever the receiver of a Collect call reads the up
\* metric it was sent, the value agrees with the status fetch of the cycle
\* that sent it: it reads 0 only when that fetch failed (no live counters
\* were sent with it) and 1 only when it succeeded (the counters were sent),
\* whatever Collect calls ran between the send and the read.
C15_UpReadAgreesWithOwnCycle ==
    \A p \in Procs :
        obs[p].state = "read" =>
            ((obs[p].up = nginxDown) <=> obs[p].err)

\* ------------------------------------------------------------------------
\* Every call runs its own cycle (under Spec)
\* ------------------------------------------------------------------------

\* a caller that waits for the mutex or has just got it holds nothing of any
\* cycle: no status, no file list, no stat or probe result, nothing sent
HoldsNothing(p) ==
    /\ status[p] = NoStatus
    /\ files[p] = <<>>
    /\ seen[p] = <<>>
    /\ custom[p] = EmptyCustomStats
    /\ ch[p] = <<>>

\* what a finished cycle sent is what the cycle itself fetched, statted and
\* probed
OwnCycle(p) ==
    /\ ~status[p].err =>
          /\ files[p] = DiscoverFiles(layout)
          /\ Len(seen[p]) = Len(files[p])
          /\ SelectSeq(ch[p], LAMBDA x : x.kind = "counter")
                 = CounterSamples(status[p].stats)
    /\ \A h \in 1..Len(ch[p]) :
          /\ ch[p][h].kind = "mtime" =>
                \E k \in 1..Len(seen[p]) :
                    /\ seen[p][k].file = ch[p][h].file
                    /\ seen[p][k].statOK
                    /\ seen[p][k].mtime = ch[p][h].value
          /\ ch[p][h].kind = "health" =>
                \E k \in 1..Len(seen[p]) :
                    /\ seen[p][k].file = ch[p][h].file
                    /\ \E j \in 1..Len(seen[p][k].dials) :
                          ch[p][h].value
                              = IF seen[p][k].dials[j] = "connected"
                                THEN TcpSuccess ELSE TcpFailure

\* a step of the file loop stats the file now: the time it records is the
\* file's modification time at that step
StatsAreCurrent ==
    \A p \in Procs :
        Len(seen'[p]) = Len(seen[p]) + 1 =>
            seen'[p][Len(seen'[p])].mtime
                = modTime[seen'[p][Len(seen'[p])].file]

\* C16: a call of Collect that arrives while a cycle is in flight cannot get
\* past Lock until that cycle has returned; when it gets the mutex it holds
\* nothing of an earlier cycle and runs its own: its own status fetch, its
\* own discovery, a stat of every file at the time of the step and its own
\* probes, and everything it sends is what that cycle itself obtained.
C16_EveryCallRunsItsOwnCycle ==
    /\ [](\A p \in Procs :
            /\ (pc[p] = "lock" /\ locked) => ~ENABLED Lock(p)
            /\ pc[p] \in {"idle", "lock", "fetch"} => HoldsNothing(p)
            /\ AtReturn(p) => OwnCycle(p))
    /\ [][StatsAreCurrent]_vars

\* a caller waits while the cycle in flight returns a modification time
\* that is not the one of the time the collector started
C16_Witness ==
    \E p, q \in Procs :
        /\ pc[q] = "lock"
        /\ locked
        /\ AtReturn(p)
        /\ ~status[p].err
        /\ \E h \in 1..Len(ch[p]) :
              /\ ch[p][h].kind = "mtime"
              /\ ch[p][h].file = PrimaryPath
              /\ ch[p][h].value > 1

\* ------------------------------------------------------------------------
\* Describe (under SpecDescribe)
\* ------------------------------------------------------------------------

\* up, the seven live counters, the configuration modification time
BaseDescriptors == {DescUp, DescConfigMod} \cup CounterNames

\* each descriptor of a set, once
OnceEach(descs) == [x \in descs |-> 1]

\* C17, as claimed: Describe can run at any time, the collector's mutex held
\* or not; it changes no state of the collector; and every call sends the
\* same descriptor set: up, the seven live counters, the configuration
\* modification time and the upstream health, each once.
C17_Original_DescribeSendsAllTen ==
    /\ [](/\ nDescribe < MaxDescribes => ENABLED Describe
          /\ nDescribe > 0 =>
                described = OnceEach(BaseDescriptors \cup {DescUpstreamHealth}))
    /\ [][nDescribe' # nDescribe => UNCHANGED collector]_vars

\* C17, amended: Describe can run at any time, the collector's mutex held or
\* not; it changes no state of the collector; and every call sends the fixed
\* descriptor set of its revision, each descriptor once: up, the seven live
\* counters and the configuration modification time, and the upstream
\* health in the two revisions that probe targets; the revision of
\* collector/nginx.go has no upstream-health descriptor.
C17_DescribeFrameAndFixedSet ==
    /\ [](/\ nDescribe < MaxDescribes => ENABLED Describe
          /\ nDescribe > 0 =>
                described =
                    OnceEach(IF rev = "mtime"
                             THEN BaseDescriptors
                             ELSE BaseDescriptors \cup {DescUpstreamHealth}))
    /\ [][nDescribe' # nDescribe => UNCHANGED collector]_vars

\* Describe has run, and can run again, while a cycle holds the mutex in the
\* middle of its file loop
C17_Witness ==
    /\ locked
    /\ \E p \in Procs : pc[p] = "files"
    /\ nDescribe = 1
    /\ ENABLED Describe
    /\ DOMAIN described # {}

\* ------------------------------------------------------------------------
\* Progress of Collect
\* ------------------------------------------------------------------------

\* a call that holds the mutex takes its next step: the status fetch and
\* every dial come back (the client's and the dialer's timeouts), each send
\* on ch is received, and the deferred Unlock runs at the return
CycleProgress(p) ==
    /\ WF_vars(FetchStats(p))
    /\ WF_vars(SendUp(p))
    /\ WF_vars(SendCounters(p))
    /\ WF_vars(Discover(p))
    /\ WF_vars(FileStep(p))
    /\ WF_vars(FilesDone(p))
    /\ WF_vars(SendCustom(p))
    /\ WF_vars(Unlock(p))

\* sync.Mutex hands the lock to a waiter that keeps failing to get it
\* (starvation mode): a caller at Lock that finds the mutex free again and
\* again gets it
MutexHandOff(p) == SF_vars(Lock(p))

\* one installation in each revision: the primary file of scenario A and
\* one override file in conf.d
LiveInit ==
    /\ rev \in Revisions
    /\ layout = [exists |-> TRUE, entries |-> {"conf.d/a.conf"}]
    /\ primaryText = "scenarioA"
    /\ CollectorIdle
    /\ ScanIdle
    /\ FetchIdle
    /\ RegistryIdle

\* the collector under a scheduler that runs every runnable call; when a
\* scrape arrives and when the file is edited stay free
SpecLive ==
    LiveInit /\ [][Next]_vars
        /\ \A p \in Procs : CycleProgress(p) /\ MutexHandOff(p)

\* the mutex is held exactly while one call is between Lock and its return
HeldByOneCall ==
    /\ locked <=> \E p \in Procs : InCycle(p)
    /\ \A p, q \in Procs : InCycle(p) /\ InCycle(q) => p = q

\* a step that takes a call back to idle releases the mutex
ReturnReleases ==
    \A p \in Procs : (pc[p] # "idle" /\ pc'[p] = "idle") => ~locked'

\* C18: Collect releases the mutex on every way out (the return after a
\* failed status fetch and the return at the end), so that every call that
\* holds the mutex gets back to idle and every caller waiting at Lock gets
\* the mutex.
C18_EveryCollectFinishes ==
    /\ []HeldByOneCall
    /\ [][ReturnReleases]_vars
    /\ \A p \in Procs :
          /\ InCycle(p) ~> pc[p] = "idle"
          /\ pc[p] = "lock" ~> pc[p] = "fetch"

\* a caller waits at Lock while the call that holds the mutex is at its
\* early return after a failed status fetch
C18_Witness ==
    \E p, q \in Procs :
        /\ pc[q] = "lock"
        /\ locked
        /\ pc[p] = "unlock"
        /\ status[p].err
        /\ Len(ch[p]) = 1

====
